---- MODULE Spec2Model ----
(***************************************************************************)
(* A model of tep-demo: the run-aware data partitioner, the cascaded       *)
(* training / inference policy, and the streaming monitor of the           *)
(* dashboard.                                                              *)
(*                                                                         *)
(* Python values are represented as follows.  None is the empty tuple and  *)
(* a present value x is the one-element tuple <<x>>.  A dict is a          *)
(* function whose DOMAIN is the set of keys present.  Times are kept in    *)
(* minutes; the dashboard's hour axis is minutes / 60.                     *)
(***************************************************************************)
EXTENDS Integers, Sequences, FiniteSets, TLC

None == <<>>
Some(x) == <<x>>

\* ------------------------------------------------------------------------
\* Bounds of the model
\* ------------------------------------------------------------------------
\* Fault classes are 0 (normal) and 1..MaxFault.
MaxFault == 2
\* Number of rows of the simulated telemetry stream of one scenario.
StreamLen == 24
\* Input tables of the partitioner: classes 0..MaxClass, runs 1..MaxRun per
\* class, at most MaxRows rows; quotas 0..MaxQuota.
MaxClass == 1
MaxRun == 2
MaxRows == 3
MaxQuota == 2

\* ------------------------------------------------------------------------
\* Program constants
\* ------------------------------------------------------------------------
TIME_STEP_MINUTES == 3
INJECTION_TIME_MIN == 60
PERSISTENCE_LIMIT == 2
\* "index < 5" / "index == 5" of the cold-start calibration
CALIBRATION_SIZE == 5
\* "current_time_hours < 1.0", in minutes
STABILIZATION_MIN == 60

Faults == 1..MaxFault

VARIABLES
    \* ---- dashboard (src/src/dashboard/app.py) ----
    session_state,      \* st.session_state: a dict
    selected_fault_code,\* value of the scenario selectbox
    simulation_data,    \* rows of the selected scenario, run 1
    pc,                 \* "idle": no script loop is running; "loop": streaming loop
    index,              \* loop variable: index of the next row to feed
    prediction_result,  \* result of get_api_prediction for the last fed row
    init_p, init_t, init_f,          \* calibration buffers
    history_pression, history_temp, history_debit,
    history_pred, history_time,      \* chart histories (history_time in minutes)
    \* ---- partitioner (src/src/training/loader.py) ----
    part_pc,            \* "raw", "sub" (downsampled), "split", "legacy_split",
                        \* "legacy_xy"
    source_df,          \* the table read from the master record
    loaded_df,                 \* the table as load_data returns it, before the run key
    quota,      \* quota given to _subsample_by_run, None when not called
    split_test_size,          \* split_test_size of the split, in percent
    shuffle_order,      \* permutation drawn by the shuffle / random choice
    df_train, df_test,  \* the two partitions, before _finalize_split
    split_result,       \* ((X_train, y_train), (X_test, y_test))
    drop_metadata,      \* the drop_metadata argument of the last split_X_y
    \* ---- inference API (src/src/api/main.py) ----
    artifact_store,     \* what joblib.load returns for the two model paths
    api_up,             \* the application is between startup and shutdown
    MODELS,             \* the global artifact repository: a dict
    api_request,        \* the last request received
    api_response,       \* the response to it
    api_calls,          \* the model invocations made while serving it
    \* ---- pipeline (src/main.py) ----
    fs,                 \* the files: path -> [state, content]
    seed_orders,        \* the permutation of the seeded shuffle, per length
    pipe_pc,            \* position of the running call, "idle" when none
    pipe_call,          \* the call in progress or last made
    pipe_df,            \* df of MLPipeline.train
    pipe_train,         \* df_train_ready
    pipe_test,          \* df_test of save_test_set
    io_ops,             \* file reads and writes of the call, in order
    last_report,        \* history: the report last computed and persisted
    provenance          \* history: the runs whose rows each persisted artifact
                        \* was made from

partVars == <<part_pc, source_df, loaded_df, quota, split_test_size, shuffle_order,
              df_train, df_test, split_result, drop_metadata>>

monitorVars == <<session_state, selected_fault_code, simulation_data, pc, index,
                 prediction_result, init_p, init_t, init_f,
                 history_pression, history_temp, history_debit,
                 history_pred, history_time>>

apiVars == <<artifact_store, api_up, MODELS, api_request, api_response, api_calls>>

pipeVars == <<fs, seed_orders, pipe_pc, pipe_call, pipe_df, pipe_train, pipe_test, io_ops,
              last_report, provenance>>

vars == <<monitorVars, partVars, apiVars, pipeVars>>

\* ========================================================================
\* DATA FRAMES
\* ========================================================================
\* A DataFrame is [columns |-> sequence of column names, rows |-> sequence
\* of rows]; a row is a function from the column names to values.

\* The sensor columns, in the order of the source files.  Two channels stand
\* for the 52 (xmeas_1..xmeas_41, xmv_1..xmv_11).
SensorCols == <<"xmeas_1", "xmv_1">>
SourceColumns == <<"faultNumber", "simulationRun", "sample">> \o SensorCols

Range(s) == {s[i] : i \in DOMAIN s}

Min2(a, b) == IF a <= b THEN a ELSE b
Max2(a, b) == IF a >= b THEN a ELSE b

\* Python's s[:k]
PrefixSlice(s, k) ==
    IF k >= 0 THEN SubSeq(s, 1, Min2(k, Len(s)))
              ELSE SubSeq(s, 1, Max2(0, Len(s) + k))

\* Python's int(num / den) for den > 0: truncation toward zero
TruncDiv(num, den) ==
    IF num >= 0 THEN num \div den ELSE -((-num) \div den)

\* pandas Series.unique(): the distinct values in order of first appearance
Unique(s) ==
    LET F[i \in 0..Len(s)] ==
            IF i = 0 THEN <<>>
            ELSE IF s[i] \in Range(F[i - 1]) THEN F[i - 1]
                 ELSE Append(F[i - 1], s[i])
    IN  F[Len(s)]

\* np.unique(x) on integers: the distinct values in ascending order
RECURSIVE SortedSeq(_)
SortedSeq(S) ==
    IF S = {} THEN <<>>
    ELSE LET m == CHOOSE x \in S : \A y \in S : x <= y
         IN  <<m>> \o SortedSeq(S \ {m})

np_unique(x) == SortedSeq(Range(x))

\* df[c]
Column(df, c) == [i \in 1..Len(df.rows) |-> df.rows[i][c]]

\* df.drop(columns=drop)
DropColumns(df, drop) ==
    [columns |-> SelectSeq(df.columns, LAMBDA c : c \notin drop),
     rows    |-> [i \in 1..Len(df.rows) |->
                    [c \in (DOMAIN df.rows[i]) \ drop |-> df.rows[i][c]]]]

\* df['faultNumber'].astype(str) + "_" + df['simulationRun'].astype(str)
UniqueRunId(row) ==
    ToString(row.faultNumber) \o "_" \o ToString(row.simulationRun)

\* df['unique_run_id'] = ...   (load_data)
WithUniqueRunId(df) ==
    [columns |-> IF "unique_run_id" \in Range(df.columns) THEN df.columns
                 ELSE Append(df.columns, "unique_run_id"),
     rows    |-> [i \in 1..Len(df.rows) |->
                    [c \in (DOMAIN df.rows[i]) \cup {"unique_run_id"} |->
                        IF c = "unique_run_id" THEN UniqueRunId(df.rows[i])
                        ELSE df.rows[i][c]]]]

\* ========================================================================
\* PARTITIONER (src/src/training/loader.py, src/src/training/data_loader.py)
\* ========================================================================

DEFAULT_TEST_SIZE_PCT == 20

\* Variant: the quota is applied to the run indices of the whole table, not
\* class by class.
subsample_by_run_Global(df, n_simulations) ==
    LET kept == Range(PrefixSlice(np_unique(Column(df, "simulationRun")), n_simulations))
    IN  [df EXCEPT !.rows = SelectSeq(@, LAMBDA row : row.simulationRun \in kept)]

\* DataLoader._subsample_by_run: per fault class, the rows whose
\* simulationRun is among the first n_simulations of np.unique.
subsample_by_run(df, n_simulations) ==
    LET group(f) == SelectSeq(df.rows, LAMBDA row : row.faultNumber = f)
        kept(f) == Range(PrefixSlice(
                       np_unique([i \in 1..Len(group(f)) |-> group(f)[i].simulationRun]),
                       n_simulations))
    IN  [df EXCEPT !.rows =
            SelectSeq(@, LAMBDA row : row.simulationRun \in kept(row.faultNumber))]

\* sklearn.utils.shuffle(arr, random_state=RANDOM_SEED): with a fixed seed the
\* permutation depends on the length only; `order` is that permutation.
ShuffleOrders(n) == Permutations(1..n)

Shuffle(arr, order) == [i \in 1..Len(arr) |-> arr[order[i]]]

\* split_idx = int(len(unique_runs) * (1 - test_size)), test_size in percent
SplitIdx(n, test_size) == TruncDiv(n * (100 - test_size), 100)

\* train_runs of split_by_run
train_runs_of(df, test_size, order) ==
    LET unique_runs == Shuffle(Unique(Column(df, "unique_run_id")), order)
    IN  PrefixSlice(unique_runs, SplitIdx(Len(unique_runs), test_size))

\* Variant: the train rows are selected by simulationRun alone.
df_train_of_ByRunIndexOnly(df, train_runs) ==
    LET runIdx == {df.rows[i].simulationRun :
                     i \in {j \in 1..Len(df.rows) :
                              df.rows[j].unique_run_id \in Range(train_runs)}}
    IN  [df EXCEPT !.rows = SelectSeq(@, LAMBDA row : row.simulationRun \in runIdx)]

\* df[df['unique_run_id'].isin(train_runs)]
df_train_of(df, train_runs) ==
    [df EXCEPT !.rows = SelectSeq(@, LAMBDA row : row.unique_run_id \in Range(train_runs))]

\* df[~df['unique_run_id'].isin(train_runs)]
df_test_of(df, train_runs) ==
    [df EXCEPT !.rows = SelectSeq(@, LAMBDA row : row.unique_run_id \notin Range(train_runs))]

\* Variant: the synthetic run key stays among the features.
finalize_split_KeepRunKey(df) ==
    LET metadata == {"faultNumber", "simulationRun", "sample"}
    IN  <<DropColumns(df, metadata \cap Range(df.columns)), Column(df, "faultNumber")>>

\* split_X_y (legacy loaders): (X, y)
split_X_y(df, drop_meta) ==
    LET to_drop == IF drop_meta THEN {"faultNumber", "simulationRun", "sample"}
                   ELSE {"faultNumber"}
    IN  <<DropColumns(df, to_drop \cap Range(df.columns)), Column(df, "faultNumber")>>

\* DataLoader._finalize_split: (X, y)
finalize_split(df) ==
    LET metadata == {"faultNumber", "simulationRun", "sample", "unique_run_id"}
    IN  <<DropColumns(df, metadata \cap Range(df.columns)), Column(df, "faultNumber")>>

\* DataLoader.split_by_run: ((X_train, y_train), (X_test, y_test))
split_by_run(df, test_size, order) ==
    LET train_runs == train_runs_of(df, test_size, order)
    IN  <<finalize_split(df_train_of(df, train_runs)),
          finalize_split(df_test_of(df, train_runs))>>

\* Input tables: every sequence of at most MaxRows rows over the run ids
\* (class, run).  The sample column counts the rows of a run as they come;
\* the sensor values are derived from the identity columns.
RunIds == (0..MaxClass) \X (1..MaxRun)

RunIdSeqs == UNION {[1..n -> RunIds] : n \in 0..MaxRows}

TableOf(ids) ==
    [columns |-> SourceColumns,
     rows    |-> [i \in 1..Len(ids) |->
                    LET k == Cardinality({j \in 1..i : ids[j] = ids[i]})
                    IN  [faultNumber   |-> ids[i][1],
                         simulationRun |-> ids[i][2],
                         sample        |-> k,
                         xmeas_1       |-> (ids[i][1] + k) % 2,
                         xmv_1         |-> ids[i][2] % 2]]]

InputTables == {TableOf(ids) : ids \in RunIdSeqs}

TestSizes == {0, DEFAULT_TEST_SIZE_PCT, 50, 100, 150}

RetentionRates == {50, 100}

\* np.random.choice(unique_runs, n_keep, replace=False): any arrangement of
\* n_keep distinct runs
Arrangements(runs, n_keep) ==
    {a \in [1..n_keep -> Range(runs)] : \A i, j \in 1..n_keep : a[i] = a[j] => i = j}

\* df['run_id'] = ...   (legacy train_test_split / prepare_datasets)
WithRunId(d) ==
    [columns |-> IF "run_id" \in Range(d.columns) THEN d.columns
                 ELSE Append(d.columns, "run_id"),
     rows    |-> [i \in 1..Len(d.rows) |->
                    [c \in (DOMAIN d.rows[i]) \cup {"run_id"} |->
                        IF c = "run_id" THEN UniqueRunId(d.rows[i])
                        ELSE d.rows[i][c]]]]

\* DataLoader.train_test_split (legacy), given the random draw kept_runs:
\* <<df_train, df_test>>
train_test_split(d, ts, kept_runs) ==
    LET keyed == WithRunId(d)
        kept == [keyed EXCEPT !.rows =
                    SelectSeq(@, LAMBDA row : row.run_id \in Range(kept_runs))]
        train_runs == PrefixSlice(kept_runs, SplitIdx(Len(kept_runs), ts))
    IN  <<DropColumns([kept EXCEPT !.rows =
                          SelectSeq(@, LAMBDA row : row.run_id \in Range(train_runs))],
                      {"run_id"}),
          DropColumns([kept EXCEPT !.rows =
                          SelectSeq(@, LAMBDA row : row.run_id \notin Range(train_runs))],
                      {"run_id"})>>

EmptyFrame == [columns |-> <<>>, rows |-> <<>>]

PartIdle ==
    /\ part_pc = "off"
    /\ source_df = EmptyFrame
    /\ loaded_df = EmptyFrame
    /\ quota = None
    /\ split_test_size = DEFAULT_TEST_SIZE_PCT
    /\ shuffle_order = <<>>
    /\ df_train = EmptyFrame
    /\ df_test = EmptyFrame
    /\ split_result = None
    /\ drop_metadata = TRUE

PartInit ==
    /\ part_pc = "raw"
    /\ source_df \in InputTables
    /\ loaded_df = source_df
    /\ quota = None
    /\ split_test_size = DEFAULT_TEST_SIZE_PCT
    /\ shuffle_order = <<>>
    /\ df_train = EmptyFrame
    /\ df_test = EmptyFrame
    /\ split_result = None
    /\ drop_metadata = TRUE

\* load_data with a quota: df = self._subsample_by_run(df, n_simulations)
Downsample ==
    /\ part_pc = "raw"
    /\ \E q \in 0..MaxQuota :
         /\ loaded_df' = subsample_by_run(source_df, q)
         /\ quota' = Some(q)
    /\ part_pc' = "sub"
    /\ UNCHANGED <<source_df, split_test_size, shuffle_order, df_train, df_test,
                   split_result, drop_metadata>>

\* load_data's run key followed by split_by_run
SplitByRun ==
    /\ part_pc \in {"raw", "sub"}
    /\ \E ts \in TestSizes :
       \E order \in ShuffleOrders(Cardinality({UniqueRunId(loaded_df.rows[i]) : i \in 1..Len(loaded_df.rows)})) :
         LET keyed == WithUniqueRunId(loaded_df)
             train_runs == train_runs_of(keyed, ts, order)
         IN  /\ split_test_size' = ts
             /\ shuffle_order' = order
             /\ df_train' = df_train_of(keyed, train_runs)
             /\ df_test' = df_test_of(keyed, train_runs)
             /\ split_result' = Some(<<finalize_split(df_train'), finalize_split(df_test')>>)
    /\ part_pc' = "split"
    /\ UNCHANGED <<source_df, loaded_df, quota, drop_metadata>>

\* The legacy run-aware split with random retention
LegacySplit ==
    /\ part_pc = "raw"
    /\ \E ts \in TestSizes, retention_rate \in RetentionRates :
         LET unique_runs == Unique(Column(WithRunId(loaded_df), "run_id"))
             n_keep == TruncDiv(Len(unique_runs) * retention_rate, 100)
         IN  \E kept_runs \in Arrangements(unique_runs, n_keep) :
               /\ split_test_size' = ts
               /\ shuffle_order' = kept_runs
               /\ df_train' = train_test_split(loaded_df, ts, kept_runs)[1]
               /\ df_test' = train_test_split(loaded_df, ts, kept_runs)[2]
    /\ split_result' = None
    /\ part_pc' = "legacy_split"
    /\ UNCHANGED <<source_df, loaded_df, quota, drop_metadata>>

\* split_X_y applied to both sides of the legacy split
SplitXY ==
    /\ part_pc = "legacy_split"
    /\ \E dm \in BOOLEAN :
         /\ drop_metadata' = dm
         /\ split_result' = Some(<<split_X_y(df_train, dm), split_X_y(df_test, dm)>>)
    /\ part_pc' = "legacy_xy"
    /\ UNCHANGED <<source_df, loaded_df, quota, split_test_size, shuffle_order,
                   df_train, df_test>>

PartNext ==
    \/ Downsample /\ UNCHANGED <<monitorVars, apiVars, pipeVars>>
    \/ SplitByRun /\ UNCHANGED <<monitorVars, apiVars, pipeVars>>
    \/ LegacySplit /\ UNCHANGED <<monitorVars, apiVars, pipeVars>>
    \/ SplitXY /\ UNCHANGED <<monitorVars, apiVars, pipeVars>>

\* ========================================================================
\* STREAMING MONITOR (dashboard)
\* ========================================================================

\* The telemetry of the cropped testing file: crop_and_reindex_samples
\* renumbers the samples of every run 1, 2, 3, ...  Three sensor profiles
\* stand for the channel values xmeas_7, xmeas_9, xmeas_10.
SensorProfiles == {"flat", "ramp", "step"}

SensorValue(profile, i) ==
    CASE profile = "flat" -> 10
      [] profile = "ramp" -> 10 + i
      [] profile = "step" -> IF i < CALIBRATION_SIZE THEN 10 ELSE 20

CroppedRun(profile) ==
    [i \in 1..StreamLen |->
        [sample   |-> i,
         xmeas_7  |-> SensorValue(profile, i - 1),
         xmeas_9  |-> 2 * SensorValue(profile, i - 1),
         xmeas_10 |-> 5]]

\* What an HTTP 200 answer of /predict can carry, as the dashboard reads it
\* (any server may sit behind API_URL), and the fail-soft None.
ApiAnswers == [is_anomaly : BOOLEAN, fault_code : 0..MaxFault]
PredictionResults == {None} \cup {Some(a) : a \in ApiAnswers}

\* get_api_prediction: a timeout, a transport error or a non-200 status all
\* give None; a 200 gives the decoded body.
get_api_prediction(outcome) ==
    IF outcome.kind = "ok" THEN Some(outcome.body) ELSE None

ApiOutcomes ==
    {[kind |-> "ok", body |-> a] : a \in ApiAnswers}
    \cup {[kind |-> k] : k \in {"timeout", "transport_error", "non_200"}}

\* Inference result handling: (val_detector, val_diagnosis)
val_detector(res) ==
    IF res # None THEN (IF res[1].is_anomaly THEN 1 ELSE 0) ELSE 0

val_diagnosis(res) ==
    IF res # None THEN res[1].fault_code ELSE 0

\* Variant: the sample at the injection time itself counts as post-injection.
PostInjection_AtOrAfter(current_time_minutes) ==
    current_time_minutes >= INJECTION_TIME_MIN

PostInjection(current_time_minutes) ==
    current_time_minutes > INJECTION_TIME_MIN

\* Variant: every anomalous sample overwrites the onset time.
OnsetUpdate_Retrigger(ss, detector, current_time_minutes) ==
    IF detector = 1
    THEN [ss EXCEPT !.anomaly_detected = TRUE,
                    !.anomaly_time_min = Some(current_time_minutes)]
    ELSE ss

\* "Capture first anomaly detection event"
OnsetUpdate(ss, detector, current_time_minutes) ==
    IF ~ss.anomaly_detected /\ detector = 1
    THEN [ss EXCEPT !.anomaly_detected = TRUE,
                    !.anomaly_time_min = Some(current_time_minutes)]
    ELSE ss

\* Variant: a non-matching sample leaves the counter as it is.
ConfirmUpdate_NoReset(ss, diagnosis, target, current_time_minutes) ==
    IF ~ss.diagnosis_confirmed
    THEN LET count == IF diagnosis = target
                      THEN ss.diag_consecutive_count + 1
                      ELSE ss.diag_consecutive_count
             counted == [ss EXCEPT !.diag_consecutive_count = count]
         IN  IF count >= PERSISTENCE_LIMIT
             THEN [counted EXCEPT !.diagnosis_confirmed = TRUE,
                                  !.diagnosis_time_min = Some(current_time_minutes)]
             ELSE counted
    ELSE ss

\* Variant: the counter keeps running after the confirmation.
ConfirmUpdate_Unguarded(ss, diagnosis, target, current_time_minutes) ==
    LET count == IF diagnosis = target
                 THEN ss.diag_consecutive_count + 1
                 ELSE 0
        counted == [ss EXCEPT !.diag_consecutive_count = count]
    IN  IF count >= PERSISTENCE_LIMIT
        THEN [counted EXCEPT !.diagnosis_confirmed = TRUE,
                             !.diagnosis_time_min = Some(current_time_minutes)]
        ELSE counted

\* "Confirm diagnosis only after consecutive persistent matches"
ConfirmUpdate(ss, diagnosis, target, current_time_minutes) ==
    IF ~ss.diagnosis_confirmed
    THEN LET count == IF diagnosis = target
                      THEN ss.diag_consecutive_count + 1
                      ELSE 0
             counted == [ss EXCEPT !.diag_consecutive_count = count]
         IN  IF count >= PERSISTENCE_LIMIT
             THEN [counted EXCEPT !.diagnosis_confirmed = TRUE,
                                  !.diagnosis_time_min = Some(current_time_minutes)]
             ELSE counted
    ELSE ss

\* The event detection block of one loop iteration
EventDetection(ss, res, target, current_time_minutes) ==
    IF PostInjection(current_time_minutes)
    THEN ConfirmUpdate(OnsetUpdate(ss, val_detector(res), current_time_minutes),
                       val_diagnosis(res), target, current_time_minutes)
    ELSE ss

\* sum(init_x) / len(init_x), kept as an exact fraction
RECURSIVE SumSeq(_)
SumSeq(s) == IF s = <<>> THEN 0 ELSE Head(s) + SumSeq(Tail(s))

Mean(s) == [num |-> SumSeq(s), den |-> Len(s)]

\* The baseline calibration block of one loop iteration: the new base_values
Calibrate(base, i, bp, bt, bf) ==
    IF i = CALIBRATION_SIZE
    THEN [p |-> Some(Mean(bp)), t |-> Some(Mean(bt)), f |-> Some(Mean(bf))]
    ELSE base

\* Session state initialization at the top of the script
InitialSessionState ==
    [simulation_running |-> FALSE,
     final_report       |-> None,
     final_figs         |-> None,
     base_values        |-> [p |-> None, t |-> None, f |-> None]]

\* Variant: START leaves the counter of consecutive matches of an earlier
\* session in place.
StartReset_KeepCount(ss) ==
    [k \in DOMAIN ss \cup {"anomaly_detected", "anomaly_time_min",
                           "diagnosis_confirmed", "diagnosis_time_min",
                           "diag_consecutive_count"} |->
        CASE k = "simulation_running"     -> TRUE
          [] k = "final_report"           -> None
          [] k = "final_figs"             -> None
          [] k = "base_values"            -> [p |-> None, t |-> None, f |-> None]
          [] k = "anomaly_detected"       -> FALSE
          [] k = "anomaly_time_min"       -> None
          [] k = "diagnosis_confirmed"    -> FALSE
          [] k = "diagnosis_time_min"     -> None
          [] k = "diag_consecutive_count" ->
                 IF k \in DOMAIN ss THEN ss[k] ELSE 0
          [] OTHER                        -> ss[k]]

\* The keys the START handler sets
StartReset(ss) ==
    [k \in DOMAIN ss \cup {"anomaly_detected", "anomaly_time_min",
                           "diagnosis_confirmed", "diagnosis_time_min",
                           "diag_consecutive_count"} |->
        CASE k = "simulation_running"     -> TRUE
          [] k = "final_report"           -> None
          [] k = "final_figs"             -> None
          [] k = "base_values"            -> [p |-> None, t |-> None, f |-> None]
          [] k = "anomaly_detected"       -> FALSE
          [] k = "anomaly_time_min"       -> None
          [] k = "diagnosis_confirmed"    -> FALSE
          [] k = "diagnosis_time_min"     -> None
          [] k = "diag_consecutive_count" -> 0
          [] OTHER                        -> ss[k]]

EmptyLoopLocals ==
    /\ index' = 0
    /\ prediction_result' = None
    /\ init_p' = <<>> /\ init_t' = <<>> /\ init_f' = <<>>
    /\ history_pression' = <<>> /\ history_temp' = <<>> /\ history_debit' = <<>>
    /\ history_pred' = <<>> /\ history_time' = <<>>

MonitorInit ==
    /\ session_state = InitialSessionState
    /\ selected_fault_code \in Faults
    /\ simulation_data \in {CroppedRun(p) : p \in SensorProfiles}
    /\ pc = "idle"
    /\ index = 0
    /\ prediction_result = None
    /\ init_p = <<>> /\ init_t = <<>> /\ init_f = <<>>
    /\ history_pression = <<>> /\ history_temp = <<>> /\ history_debit = <<>>
    /\ history_pred = <<>> /\ history_time = <<>>

\* The scenario selectbox; it is disabled while a simulation runs.
SelectScenario ==
    /\ ~session_state.simulation_running
    /\ pc = "idle"
    /\ \E code \in Faults : selected_fault_code' = code
    /\ UNCHANGED <<session_state, simulation_data, pc, index, prediction_result,
                   init_p, init_t, init_f, history_pression, history_temp,
                   history_debit, history_pred, history_time>>

\* START button: the script reruns (a loop in progress is abandoned), the
\* handler resets the session, and the script enters the streaming block.
\* When the source data cannot be read or is empty, the block stops at once.
Start ==
    /\ \E data_found \in BOOLEAN :
         IF data_found
         THEN /\ session_state' = StartReset(session_state)
              /\ pc' = "loop"
         ELSE /\ session_state' =
                    [StartReset(session_state) EXCEPT !.simulation_running = FALSE]
              /\ pc' = "idle"
    /\ EmptyLoopLocals
    /\ UNCHANGED <<selected_fault_code, simulation_data>>

\* ABORT button: the script reruns (a loop in progress is abandoned, its
\* local buffers are gone) and the handler clears the running flag and the
\* report.
Abort ==
    /\ session_state' = [session_state EXCEPT !.simulation_running = FALSE,
                                              !.final_report = None,
                                              !.final_figs = None]
    /\ pc' = "idle"
    /\ EmptyLoopLocals
    /\ UNCHANGED <<selected_fault_code, simulation_data>>

\* Variant: an inference failure is raised out of the loop and the script
\* stops where it is.
Feed_FatalOnFailure ==
    /\ pc = "loop"
    /\ index < Len(simulation_data)
    /\ session_state.simulation_running
    /\ prediction_result' = None
    /\ pc' = "failed"
    /\ UNCHANGED <<session_state, selected_fault_code, simulation_data, index,
                   init_p, init_t, init_f, history_pression, history_temp,
                   history_debit, history_pred, history_time>>

\* One iteration of the streaming loop on row `index`.
Feed ==
    /\ pc = "loop"
    /\ index < Len(simulation_data)
    /\ session_state.simulation_running
    /\ \E outcome \in ApiOutcomes :
         LET row == simulation_data[index + 1]
             res == get_api_prediction(outcome)
             val_press == row.xmeas_7
             val_temp  == row.xmeas_9
             val_debit == row.xmeas_10
             val_sample == row.sample
             current_time_minutes == val_sample * TIME_STEP_MINUTES
             display_pred == IF current_time_minutes < STABILIZATION_MIN
                             THEN 0 ELSE val_diagnosis(res)
             calibrated == [session_state EXCEPT !.base_values =
                               Calibrate(@, index, init_p, init_t, init_f)]
         IN  /\ prediction_result' = res
             /\ IF index < CALIBRATION_SIZE
                THEN /\ init_p' = Append(init_p, val_press)
                     /\ init_t' = Append(init_t, val_temp)
                     /\ init_f' = Append(init_f, val_debit)
                ELSE UNCHANGED <<init_p, init_t, init_f>>
             /\ session_state' = EventDetection(calibrated, res, selected_fault_code,
                                                current_time_minutes)
             /\ history_pression' = Append(history_pression, val_press)
             /\ history_temp' = Append(history_temp, val_temp)
             /\ history_debit' = Append(history_debit, val_debit)
             /\ history_pred' = Append(history_pred, display_pred)
             /\ history_time' = Append(history_time, current_time_minutes)
    /\ index' = index + 1
    /\ UNCHANGED <<selected_fault_code, simulation_data, pc>>

\* Variant: the delay is counted from the start of the stream.
Delay_FromStart(t) == t

\* max(0, t - INJECTION_TIME_MIN)
Delay(t) == IF t - INJECTION_TIME_MIN > 0 THEN t - INJECTION_TIME_MIN ELSE 0

FinalReport(ss, scenario) ==
    [scenario        |-> scenario,
     detection_delay |-> IF ss.anomaly_detected
                         THEN Some(Delay(ss.anomaly_time_min[1])) ELSE None,
     diagnosis_delay |-> IF ss.diagnosis_confirmed
                         THEN Some(Delay(ss.diagnosis_time_min[1])) ELSE None]

\* Simulation finalization and reporting, after the last row; st.rerun()
\* then starts a fresh script run.
Finalize ==
    /\ pc = "loop"
    /\ index = Len(simulation_data)
    /\ session_state.simulation_running
    /\ session_state' =
          [session_state EXCEPT
              !.final_report = Some(FinalReport(session_state, selected_fault_code)),
              !.final_figs = Some("figs"),
              !.simulation_running = FALSE]
    /\ pc' = "idle"
    /\ EmptyLoopLocals
    /\ UNCHANGED <<selected_fault_code, simulation_data>>

MonitorNext ==
    \/ SelectScenario /\ UNCHANGED <<partVars, apiVars, pipeVars>>
    \/ Start /\ UNCHANGED <<partVars, apiVars, pipeVars>>
    \/ Abort /\ UNCHANGED <<partVars, apiVars, pipeVars>>
    \/ Feed /\ UNCHANGED <<partVars, apiVars, pipeVars>>
    \/ Finalize /\ UNCHANGED <<partVars, apiVars, pipeVars>>

\* The dashboard not started
MonitorIdle ==
    /\ session_state = InitialSessionState
    /\ selected_fault_code = 1
    /\ simulation_data = <<>>
    /\ pc = "idle"
    /\ index = 0
    /\ prediction_result = None
    /\ init_p = <<>> /\ init_t = <<>> /\ init_f = <<>>
    /\ history_pression = <<>> /\ history_temp = <<>> /\ history_debit = <<>>
    /\ history_pred = <<>> /\ history_time = <<>>

\* ========================================================================
\* INFERENCE API (src/src/api/main.py)
\* ========================================================================

\* Sensor readings of a request, abstracted to two levels.
SensorValues == {0, 1}

\* A row of input_df[sensor_cols]: the readings in the order of sensor_cols.
FeatureVectors == [1..Len(SensorCols) -> SensorValues]

\* Keys a client may send: the sensors, and one key that is not a sensor.
PayloadKeys == Range(SensorCols) \cup {"extra_key"}

\* Values of the "sensors" field (Dict[str, float]).
SensorDicts == UNION {[K -> SensorValues] : K \in SUBSET PayloadKeys}

\* The "sensors" field of a request body: None when the field is absent.
RequestBodies == {None} \cup {Some(d) : d \in SensorDicts}

\* The order in which a client may write the keys of the "sensors" object:
\* the sensors first, in their usual order; a request of exactly the sensor
\* channels may also list them in the reverse order.
PayloadKeySeq == SensorCols \o <<"extra_key">>

Reverse(s) == [i \in 1..Len(s) |-> s[Len(s) + 1 - i]]

KeyOrders(d) ==
    LET usual == SelectSeq(PayloadKeySeq, LAMBDA k : k \in DOMAIN d)
    IN  IF DOMAIN d = Range(SensorCols) THEN {usual, Reverse(usual)} ELSE {usual}

\* pd.DataFrame([payload.sensors]): one row, the columns in key order.
RequestFrame(sensors, keys) == [columns |-> keys, rows |-> <<sensors>>]

\* Fitted classifiers, by their predict function.  The detector was fitted
\* on labels {0, 1}; the diagnostician artifact is any multi-class model.
DetectorArtifacts == [FeatureVectors -> {0, 1}]
DiagnosticianArtifacts == [FeatureVectors -> 0..MaxFault]

\* joblib.load(path): None stands for a load that raises.
ArtifactStores ==
    [detector : {None} \cup {Some(m) : m \in DetectorArtifacts},
     diagnostician : {None} \cup {Some(m) : m \in DiagnosticianArtifacts}]

\* lifespan, startup part: the MODELS dict after the try block.
LoadModels(store) ==
    IF store.detector = None THEN [k \in {} |-> None]
    ELSE IF store.diagnostician = None
         THEN [k \in {"detector"} |-> store.detector[1]]
         ELSE [k \in {"detector", "diagnostician"} |->
                  IF k = "detector" THEN store.detector[1]
                  ELSE store.diagnostician[1]]

\* Variant: the sensor columns of the frame are taken in the order the
\* frame has them.
SelectSensorCols_KeyOrder(input_df) ==
    IF Range(SensorCols) \subseteq Range(input_df.columns)
    THEN LET cols == SelectSeq(input_df.columns, LAMBDA c : c \in Range(SensorCols))
         IN  Some([i \in 1..Len(cols) |-> input_df.rows[1][cols[i]]])
    ELSE None

\* input_df[sensor_cols]: the row of the frame in the order of sensor_cols;
\* None stands for the KeyError of a missing column.
SelectSensorCols(input_df) ==
    IF Range(SensorCols) \subseteq Range(input_df.columns)
    THEN Some([i \in 1..Len(SensorCols) |-> input_df.rows[1][SensorCols[i]]])
    ELSE None

NormalStatus == "Normal Operation"
AnomalousStatus(fault_code) == "Anomalous state detected: Fault " \o ToString(fault_code)

HttpError(code, detail) == [status_code |-> code, detail |-> detail]
HttpOk(body) == [status_code |-> 200, body |-> body]

\* The two stages of predict with the diagnosis made unconditional.
Cascade_AlwaysDiagnose(models, input_df) ==
    LET is_anomaly == models["detector"][input_df] # 0
        fault_code == models["diagnostician"][input_df]
    IN  [response |-> [is_anomaly |-> is_anomaly,
                       fault_code |-> fault_code,
                       status |-> AnomalousStatus(fault_code)],
         calls |-> <<<<"detector", input_df>>, <<"diagnostician", input_df>>>>]

\* predict, stages 1 and 2: the response dict and the models invoked, in
\* order, each with the vector it was given.
Cascade(models, input_df) ==
    LET is_anomaly == models["detector"][input_df] # 0
        fault_code == models["diagnostician"][input_df]
    IN  IF is_anomaly
        THEN [response |-> [is_anomaly |-> TRUE,
                            fault_code |-> fault_code,
                            status |-> AnomalousStatus(fault_code)],
              calls |-> <<<<"detector", input_df>>, <<"diagnostician", input_df>>>>]
        ELSE [response |-> [is_anomaly |-> FALSE,
                            fault_code |-> 0,
                            status |-> NormalStatus],
              calls |-> <<<<"detector", input_df>>>>]

\* Variant: the batch evaluation takes the diagnostician's class for every
\* row.
final_preds_Unmasked(models, X_test) ==
    [i \in 1..Len(X_test) |-> models["diagnostician"][X_test[i]]]

\* ModelEvaluator._compute_metrics, stages 1 and 2: the detector on every
\* row, then the diagnostician on the rows of mask_anomaly, its answers
\* written back at the masked positions.
final_preds(models, X_test) ==
    LET y_pred_detect == [i \in 1..Len(X_test) |-> models["detector"][X_test[i]]]
        mask_anomaly == [i \in 1..Len(X_test) |-> y_pred_detect[i] >= 1]
        masked == SelectSeq(X_test, LAMBDA row : models["detector"][row] >= 1)
        diagnosed == [k \in 1..Len(masked) |-> models["diagnostician"][masked[k]]]
        rank(i) == Cardinality({j \in 1..i : mask_anomaly[j]})
    IN  [i \in 1..Len(X_test) |->
            IF mask_anomaly[i] THEN diagnosed[rank(i)] ELSE y_pred_detect[i]]

\* generate_audit (legacy evaluation): both models on every row, then
\* "diag if det == 1 else 0".
generate_audit(models, X_test) ==
    LET fault_detected == [i \in 1..Len(X_test) |-> models["detector"][X_test[i]]]
        fault_type == [i \in 1..Len(X_test) |-> models["diagnostician"][X_test[i]]]
    IN  [i \in 1..Len(X_test) |-> IF fault_detected[i] = 1 THEN fault_type[i] ELSE 0]

\* The API process not started; the artifacts on disk are arbitrary.
ApiInit ==
    /\ artifact_store \in ArtifactStores
    /\ api_up = FALSE
    /\ MODELS = [k \in {} |-> None]
    /\ api_request = None
    /\ api_response = None
    /\ api_calls = <<>>

ApiIdle ==
    /\ artifact_store = [detector |-> None, diagnostician |-> None]
    /\ api_up = FALSE
    /\ MODELS = [k \in {} |-> None]
    /\ api_request = None
    /\ api_response = None
    /\ api_calls = <<>>

\* lifespan up to the yield
Startup ==
    /\ ~api_up
    /\ api_up' = TRUE
    /\ MODELS' = LoadModels(artifact_store)
    /\ UNCHANGED <<artifact_store, api_request, api_response, api_calls>>

\* lifespan after the yield
Shutdown ==
    /\ api_up
    /\ api_up' = FALSE
    /\ MODELS' = [k \in {} |-> None]
    /\ UNCHANGED <<artifact_store, api_request, api_response, api_calls>>

\* Variant: readiness is reported without looking at the repository.
HealthBody_AlwaysReady(models) ==
    [status |-> "healthy", detector_ready |-> TRUE, diagnostician_ready |-> TRUE]

\* The dict returned by health_check
HealthBody(models) ==
    [status |-> "healthy",
     detector_ready |-> "detector" \in DOMAIN models,
     diagnostician_ready |-> "diagnostician" \in DOMAIN models]

\* GET /health
health_check ==
    /\ api_up
    /\ api_request' = Some([endpoint |-> "/health"])
    /\ api_response' = Some(HttpOk(HealthBody(MODELS)))
    /\ api_calls' = <<>>
    /\ UNCHANGED <<artifact_store, api_up, MODELS>>

\* POST /predict with the given "sensors" field, its keys written in the
\* given order
predict(payload, keys) ==
    /\ api_up
    /\ api_request' = Some([endpoint |-> "/predict", sensors |-> payload, keys |-> keys])
    /\ IF payload = None
       THEN \* request validation of SensorData
            /\ api_response' = Some(HttpError(422, "field required"))
            /\ api_calls' = <<>>
       ELSE IF ~ {"detector", "diagnostician"} \subseteq DOMAIN MODELS
       THEN /\ api_response' =
                  Some(HttpError(503, "Inference engine is not initialized. Check server logs."))
            /\ api_calls' = <<>>
       ELSE LET input_df == SelectSensorCols(RequestFrame(payload[1], keys))
            IN  IF input_df = None
                THEN /\ api_response' = Some(HttpError(500, "Internal inference failure"))
                     /\ api_calls' = <<>>
                ELSE /\ api_response' = Some(HttpOk(Cascade(MODELS, input_df[1]).response))
                     /\ api_calls' = Cascade(MODELS, input_df[1]).calls
    /\ UNCHANGED <<artifact_store, api_up, MODELS>>

Predict ==
    \E payload \in RequestBodies :
        \E keys \in (IF payload = None THEN {<<>>} ELSE KeyOrders(payload[1])) :
            predict(payload, keys)

ApiNext ==
    \/ Startup /\ UNCHANGED <<monitorVars, partVars, pipeVars>>
    \/ Shutdown /\ UNCHANGED <<monitorVars, partVars, pipeVars>>
    \/ health_check /\ UNCHANGED <<monitorVars, partVars, pipeVars>>
    \/ Predict /\ UNCHANGED <<monitorVars, partVars, pipeVars>>

\* ========================================================================
\* TRAINING AND EVALUATION PIPELINE
\* (src/main.py, src/src/training/trainer.py, src/src/evaluation/evaluator.py)
\* ========================================================================

\* File names
MERGED_FILE_PATH == "TEP_Faulty_and_Normal_Merged.parquet"
FINAL_TEST_SET_PATH == "test_set_final.parquet"
MODEL_DETECT_NAME == "detector_pipeline.joblib"
MODEL_DIAG_NAME == "diagnostician_pipeline.joblib"
METRICS_PATH == "metrics.json"

\* SUBSETS_DIR / f"TEP_subset_N{n_simulations}.parquet"
subset_path(n_simulations) ==
    "TEP_subset_N"
        \o (IF n_simulations = None THEN "None" ELSE ToString(n_simulations[1]))
        \o ".parquet"

\* Values of DEFAULT_N_SIMULATIONS a deployment may configure: None (the
\* full dataset) or a quota of one run per class.
ConfiguredQuotas == {None, Some(1)}

Paths ==
    {MERGED_FILE_PATH, FINAL_TEST_SET_PATH, MODEL_DETECT_NAME, MODEL_DIAG_NAME,
     METRICS_PATH} \cup {subset_path(n) : n \in ConfiguredQuotas}

\* A file is absent, partial (opened for writing, not yet closed) or complete.
Absent == [state |-> "absent", content |-> None]
Partial == [state |-> "partial", content |-> None]
Complete(c) == [state |-> "complete", content |-> Some(c)]

\* Path.exists()
exists(files, path) == files[path].state # "absent"

\* pd.read_parquet / joblib.load / json.load succeed on a complete file only
Readable(files, path) == files[path].state = "complete"
ContentOf(files, path) == files[path].content[1]

\* Python truthiness of n_simulations ("if n_simulations:")
Truthy(n_simulations) == n_simulations # None /\ n_simulations[1] # 0

\* pd.concat([X, y], axis=1) and df[name] = y.values
WithColumn(X, name, y) ==
    [columns |-> Append(X.columns, name),
     rows    |-> [i \in 1..Len(X.rows) |->
                    [c \in (DOMAIN X.rows[i]) \cup {name} |->
                        IF c = name THEN y[i] ELSE X.rows[i][c]]]]

\* ModelTrainer._prepare_features
prepare_features(df) ==
    LET metadata == {"faultNumber", "simulationRun", "sample", "unique_run_id"}
    IN  DropColumns(df, metadata \cap Range(df.columns))

\* A fitted pipeline is represented by what it was fitted on: with the
\* random_state of the configuration fixed, fit is a function of (X, y).
\* Stage 1: every row, label collapsed to 0 / 1.
DetectorFit(df_train_ready) ==
    [X |-> prepare_features(df_train_ready).rows,
     y |-> [i \in 1..Len(df_train_ready.rows) |->
              IF df_train_ready.rows[i].faultNumber > 0 THEN 1 ELSE 0]]

\* Variant: the diagnostician is fitted on every row.
DiagnosticianFit_AllRows(df_train_ready) ==
    [X |-> prepare_features(df_train_ready).rows,
     y |-> Column(df_train_ready, "faultNumber")]

\* Stage 2: the rows with a positive label, label kept.
DiagnosticianFit(df_train_ready) ==
    LET df_train_faulty ==
            [df_train_ready EXCEPT !.rows = SelectSeq(@, LAMBDA row : row.faultNumber > 0)]
    IN  [X |-> prepare_features(df_train_faulty).rows,
         y |-> Column(df_train_faulty, "faultNumber")]

\* Pipeline.fit and Pipeline.predict raise ValueError on zero samples.
FitRaises(fit) == Len(fit.X) = 0
PredictRaises(df) == Len(df.rows) = 0

\* classification_report of the cascade on the test set, serialized: a
\* function of the two models and the test set.
Report(detector, diagnostician, test_set) ==
    [detector |-> detector, diagnostician |-> diagnostician, test_set |-> test_set]

\* Master records of the pipeline runs.
PipelineRunSeqs ==
    { << <<0, 1>>, <<0, 1>>, <<1, 1>>, <<2, 1>> >>,
      << <<0, 1>>, <<1, 1>>, <<1, 2>> >> }

PipelineTables == {TableOf(ids) : ids \in PipelineRunSeqs}

PipelineMaxRuns ==
    LET counts == {Cardinality(Range(ids)) : ids \in PipelineRunSeqs}
    IN  CHOOSE k \in counts : \A j \in counts : j <= k

\* The permutation the seeded shuffle applies to an array of each length.
SeedOrders ==
    {f \in [0..PipelineMaxRuns -> UNION {ShuffleOrders(n) : n \in 0..PipelineMaxRuns}] :
        \A n \in 0..PipelineMaxRuns : f[n] \in ShuffleOrders(n)}

NoProvenance == [test_set |-> {}, detector |-> {}, diagnostician |-> {}]

\* The runs on each side of the split of the keyed table df
SplitRuns(df, orders) ==
    LET unique_runs == Unique(Column(df, "unique_run_id"))
        train_runs == Range(train_runs_of(df, DEFAULT_TEST_SIZE_PCT,
                                          orders[Len(unique_runs)]))
    IN  [train |-> train_runs, test |-> Range(unique_runs) \ train_runs]

NoCall == [op |-> "none", force |-> FALSE, n_simulations |-> None,
           models_existed |-> FALSE, outcome |-> "returned",
           displayed |-> None]

PipeIdle ==
    /\ fs = [path \in Paths |-> Absent]
    /\ seed_orders = <<>>
    /\ pipe_pc = "idle"
    /\ pipe_call = NoCall
    /\ pipe_df = EmptyFrame
    /\ pipe_train = EmptyFrame
    /\ pipe_test = EmptyFrame
    /\ io_ops = <<>>
    /\ last_report = None
    /\ provenance = NoProvenance

\* After preprocessing: the master record is on disk, nothing else is.
PipeInit ==
    /\ \E master \in PipelineTables :
          fs = [path \in Paths |->
                  IF path = MERGED_FILE_PATH THEN Complete(master) ELSE Absent]
    /\ seed_orders \in SeedOrders
    /\ pipe_pc = "idle"
    /\ pipe_call = NoCall
    /\ pipe_df = EmptyFrame
    /\ pipe_train = EmptyFrame
    /\ pipe_test = EmptyFrame
    /\ io_ops = <<>>
    /\ last_report = None
    /\ provenance = NoProvenance

\* The call ends (return, exception, or death of the process): its locals go.
Finish(outcome) ==
    /\ pipe_pc' = "idle"
    /\ pipe_call' = [pipe_call EXCEPT !.outcome = outcome]
    /\ pipe_df' = EmptyFrame
    /\ pipe_train' = EmptyFrame
    /\ pipe_test' = EmptyFrame

\* The call returns after _display_results has rendered the report.
FinishShowing(report) ==
    /\ pipe_pc' = "idle"
    /\ pipe_call' = [pipe_call EXCEPT !.outcome = "returned", !.displayed = Some(report)]
    /\ pipe_df' = EmptyFrame
    /\ pipe_train' = EmptyFrame
    /\ pipe_test' = EmptyFrame

Logged(op, path) == io_ops' = Append(io_ops, <<op, path>>)

\* MLPipeline.train(force) is entered; n_simulations is the configured
\* default of load_data.
TrainCall ==
    /\ pipe_pc = "idle"
    /\ \E force \in BOOLEAN, n_simulations \in ConfiguredQuotas :
          pipe_call' = [op |-> "train", force |-> force,
                        n_simulations |-> n_simulations,
                        models_existed |-> /\ exists(fs, MODEL_DETECT_NAME)
                                           /\ exists(fs, MODEL_DIAG_NAME),
                        outcome |-> "running", displayed |-> None]
    /\ pipe_pc' = "load_data"
    /\ io_ops' = <<>>
    /\ UNCHANGED <<fs, seed_orders, last_report, provenance, pipe_df, pipe_train, pipe_test>>

\* DataLoader.load_data up to the subset write
load_data ==
    /\ pipe_pc = "load_data"
    /\ LET n_simulations == pipe_call.n_simulations
           path == subset_path(n_simulations)
       IN  IF exists(fs, path)
           THEN IF Readable(fs, path)
                THEN /\ pipe_df' = WithUniqueRunId(ContentOf(fs, path))
                     /\ pipe_pc' = "split"
                     /\ Logged("read", path)
                     /\ UNCHANGED <<fs, pipe_call, pipe_train, pipe_test>>
                ELSE /\ Finish("raised")
                     /\ Logged("read", path)
                     /\ UNCHANGED fs
           ELSE IF ~exists(fs, MERGED_FILE_PATH)
           THEN /\ Finish("raised")
                /\ UNCHANGED <<fs, io_ops>>
           ELSE IF Truthy(n_simulations)
           THEN /\ pipe_df' = subsample_by_run(ContentOf(fs, MERGED_FILE_PATH),
                                               n_simulations[1])
                /\ fs' = [fs EXCEPT ![path] = Partial]
                /\ pipe_pc' = "subset_write"
                /\ io_ops' = io_ops \o << <<"read", MERGED_FILE_PATH>>, <<"write", path>> >>
                /\ UNCHANGED <<pipe_call, pipe_train, pipe_test>>
           ELSE /\ pipe_df' = WithUniqueRunId(ContentOf(fs, MERGED_FILE_PATH))
                /\ pipe_pc' = "split"
                /\ Logged("read", MERGED_FILE_PATH)
                /\ UNCHANGED <<fs, pipe_call, pipe_train, pipe_test>>
    /\ UNCHANGED <<seed_orders, last_report, provenance>>

\* df.to_parquet(subset_path) completes; the run key is added.
SubsetWritten ==
    /\ pipe_pc = "subset_write"
    /\ fs' = [fs EXCEPT ![subset_path(pipe_call.n_simulations)] = Complete(pipe_df)]
    /\ pipe_df' = WithUniqueRunId(pipe_df)
    /\ pipe_pc' = "split"
    /\ UNCHANGED <<seed_orders, last_report, provenance, pipe_call, pipe_train, pipe_test, io_ops>>

\* split_by_run, then save_test_set up to the opening of the output file
SplitAndArchive ==
    /\ pipe_pc = "split"
    /\ LET n_runs == Len(Unique(Column(pipe_df, "unique_run_id")))
           split_data == split_by_run(pipe_df, DEFAULT_TEST_SIZE_PCT, seed_orders[n_runs])
       IN  /\ pipe_train' = WithColumn(split_data[1][1], "faultNumber", split_data[1][2])
           /\ pipe_test' = WithColumn(split_data[2][1], "target", split_data[2][2])
    /\ fs' = [fs EXCEPT ![FINAL_TEST_SET_PATH] = Partial]
    /\ pipe_pc' = "test_set_write"
    /\ Logged("write", FINAL_TEST_SET_PATH)
    /\ UNCHANGED <<seed_orders, last_report, provenance, pipe_call, pipe_df>>

\* df_test.to_parquet(output_path) completes
TestSetWritten ==
    /\ pipe_pc = "test_set_write"
    /\ fs' = [fs EXCEPT ![FINAL_TEST_SET_PATH] = Complete(pipe_test)]
    /\ provenance' = [provenance EXCEPT !.test_set = SplitRuns(pipe_df, seed_orders).test]
    /\ pipe_pc' = "trainer"
    /\ UNCHANGED <<seed_orders, last_report, pipe_call, pipe_df, pipe_train, pipe_test, io_ops>>

\* Variant: stage 1 is fitted whenever the short-circuit is not taken.
TrainDetector_Always ==
    /\ pipe_pc = "trainer"
    /\ IF /\ ~pipe_call.force
          /\ exists(fs, MODEL_DETECT_NAME)
          /\ exists(fs, MODEL_DIAG_NAME)
       THEN /\ Finish("returned")
            /\ UNCHANGED <<fs, io_ops>>
       ELSE IF FitRaises(DetectorFit(pipe_train))
       THEN /\ Finish("raised")
            /\ UNCHANGED <<fs, io_ops>>
       ELSE /\ fs' = [fs EXCEPT ![MODEL_DETECT_NAME] = Partial]
            /\ pipe_pc' = "detector_write"
            /\ Logged("write", MODEL_DETECT_NAME)
            /\ UNCHANGED <<pipe_call, pipe_df, pipe_train, pipe_test>>
    /\ UNCHANGED <<seed_orders, last_report, provenance>>

\* ModelTrainer.train_cascaded_models: the short-circuit, then stage 1 up to
\* the opening of the artifact by joblib.dump
TrainDetector ==
    /\ pipe_pc = "trainer"
    /\ IF /\ ~pipe_call.force
          /\ exists(fs, MODEL_DETECT_NAME)
          /\ exists(fs, MODEL_DIAG_NAME)
       THEN /\ Finish("returned")
            /\ UNCHANGED <<fs, io_ops>>
       ELSE IF pipe_call.force \/ ~exists(fs, MODEL_DETECT_NAME)
       THEN IF FitRaises(DetectorFit(pipe_train))
            THEN /\ Finish("raised")
                 /\ UNCHANGED <<fs, io_ops>>
            ELSE /\ fs' = [fs EXCEPT ![MODEL_DETECT_NAME] = Partial]
                 /\ pipe_pc' = "detector_write"
                 /\ Logged("write", MODEL_DETECT_NAME)
                 /\ UNCHANGED <<pipe_call, pipe_df, pipe_train, pipe_test>>
       ELSE /\ pipe_pc' = "stage2"
            /\ UNCHANGED <<fs, io_ops, pipe_call, pipe_df, pipe_train, pipe_test>>
    /\ UNCHANGED <<seed_orders, last_report, provenance>>

\* joblib.dump(self.detector, save_path) completes
DetectorWritten ==
    /\ pipe_pc = "detector_write"
    /\ fs' = [fs EXCEPT ![MODEL_DETECT_NAME] = Complete(DetectorFit(pipe_train))]
    /\ provenance' = [provenance EXCEPT !.detector = SplitRuns(pipe_df, seed_orders).train]
    /\ pipe_pc' = "stage2"
    /\ UNCHANGED <<seed_orders, last_report, pipe_call, pipe_df, pipe_train, pipe_test, io_ops>>

\* Stage 2 up to the opening of the artifact
TrainDiagnostician ==
    /\ pipe_pc = "stage2"
    /\ IF pipe_call.force \/ ~exists(fs, MODEL_DIAG_NAME)
       THEN IF FitRaises(DiagnosticianFit(pipe_train))
            THEN /\ Finish("raised")
                 /\ UNCHANGED <<fs, io_ops>>
            ELSE /\ fs' = [fs EXCEPT ![MODEL_DIAG_NAME] = Partial]
                 /\ pipe_pc' = "diagnostician_write"
                 /\ Logged("write", MODEL_DIAG_NAME)
                 /\ UNCHANGED <<pipe_call, pipe_df, pipe_train, pipe_test>>
       ELSE /\ Finish("returned")
            /\ UNCHANGED <<fs, io_ops>>
    /\ UNCHANGED <<seed_orders, last_report, provenance>>

\* joblib.dump(self.diagnostician, save_path) completes; train returns
DiagnosticianWritten ==
    /\ pipe_pc = "diagnostician_write"
    /\ fs' = [fs EXCEPT ![MODEL_DIAG_NAME] = Complete(DiagnosticianFit(pipe_train))]
    /\ provenance' = [provenance EXCEPT
                         !.diagnostician = SplitRuns(pipe_df, seed_orders).train]
    /\ Finish("returned")
    /\ UNCHANGED <<seed_orders, last_report, io_ops>>

\* MLPipeline.evaluate is entered; force is FORCE_REPROCESS of the environment
EvaluateCall ==
    /\ pipe_pc = "idle"
    /\ \E force_mode \in BOOLEAN :
          pipe_call' = [op |-> "evaluate", force |-> force_mode,
                        n_simulations |-> None,
                        models_existed |-> /\ exists(fs, MODEL_DETECT_NAME)
                                           /\ exists(fs, MODEL_DIAG_NAME),
                        outcome |-> "running", displayed |-> None]
    /\ pipe_pc' = "run_evaluation"
    /\ io_ops' = <<>>
    /\ UNCHANGED <<fs, seed_orders, last_report, provenance, pipe_df, pipe_train, pipe_test>>

\* ModelEvaluator._display_results: the metrics file is read when it exists
display_results ==
    IF ~exists(fs, METRICS_PATH)
    THEN /\ Finish("returned")
         /\ UNCHANGED io_ops
    ELSE /\ IF Readable(fs, METRICS_PATH)
            THEN FinishShowing(ContentOf(fs, METRICS_PATH))
            ELSE Finish("raised")
         /\ Logged("read", METRICS_PATH)

\* Variant: the metrics are recomputed on every call.
NeedsCompute_Always(files, force_mode) == TRUE

\* run_evaluation: "if not self.metrics_path.exists() or self.force_mode"
NeedsCompute(files, force_mode) == ~exists(files, METRICS_PATH) \/ force_mode

\* ModelEvaluator.run_evaluation up to the opening of the metrics file
run_evaluation ==
    /\ pipe_pc = "run_evaluation"
    /\ IF NeedsCompute(fs, pipe_call.force)
       THEN IF ~exists(fs, FINAL_TEST_SET_PATH)
            THEN display_results /\ UNCHANGED fs
            ELSE IF ~Readable(fs, MODEL_DETECT_NAME)
            THEN /\ Finish("raised")
                 /\ Logged("read", MODEL_DETECT_NAME)
                 /\ UNCHANGED fs
            ELSE IF ~Readable(fs, MODEL_DIAG_NAME)
            THEN /\ Finish("raised")
                 /\ io_ops' = io_ops \o << <<"read", MODEL_DETECT_NAME>>,
                                          <<"read", MODEL_DIAG_NAME>> >>
                 /\ UNCHANGED fs
            ELSE IF \/ ~Readable(fs, FINAL_TEST_SET_PATH)
                    \/ PredictRaises(ContentOf(fs, FINAL_TEST_SET_PATH))
            THEN /\ Finish("raised")
                 /\ io_ops' = io_ops \o << <<"read", MODEL_DETECT_NAME>>,
                                          <<"read", MODEL_DIAG_NAME>>,
                                          <<"read", FINAL_TEST_SET_PATH>> >>
                 /\ UNCHANGED fs
            ELSE /\ fs' = [fs EXCEPT ![METRICS_PATH] = Partial]
                 /\ pipe_pc' = "metrics_write"
                 /\ io_ops' = io_ops \o << <<"read", MODEL_DETECT_NAME>>,
                                          <<"read", MODEL_DIAG_NAME>>,
                                          <<"read", FINAL_TEST_SET_PATH>>,
                                          <<"write", METRICS_PATH>> >>
                 /\ UNCHANGED <<pipe_call, pipe_df, pipe_train, pipe_test>>
       ELSE display_results /\ UNCHANGED fs
    /\ UNCHANGED <<seed_orders, last_report, provenance>>

\* json.dump(report, f) completes and the file is closed; the results are
\* displayed
MetricsWritten ==
    /\ pipe_pc = "metrics_write"
    /\ LET report == Report(ContentOf(fs, MODEL_DETECT_NAME),
                            ContentOf(fs, MODEL_DIAG_NAME),
                            ContentOf(fs, FINAL_TEST_SET_PATH))
       IN  /\ fs' = [fs EXCEPT ![METRICS_PATH] = Complete(report)]
           /\ last_report' = Some(report)
           /\ FinishShowing(report)
    /\ Logged("read", METRICS_PATH)
    /\ UNCHANGED <<seed_orders, provenance>>

\* The process dies (kill, power loss) at any point of a call.
Crash ==
    /\ pipe_pc # "idle"
    /\ Finish("crashed")
    /\ UNCHANGED <<fs, seed_orders, last_report, provenance, io_ops>>

PipeNext ==
    \/ TrainCall /\ UNCHANGED <<monitorVars, partVars, apiVars>>
    \/ load_data /\ UNCHANGED <<monitorVars, partVars, apiVars>>
    \/ SubsetWritten /\ UNCHANGED <<monitorVars, partVars, apiVars>>
    \/ SplitAndArchive /\ UNCHANGED <<monitorVars, partVars, apiVars>>
    \/ TestSetWritten /\ UNCHANGED <<monitorVars, partVars, apiVars>>
    \/ TrainDetector /\ UNCHANGED <<monitorVars, partVars, apiVars>>
    \/ DetectorWritten /\ UNCHANGED <<monitorVars, partVars, apiVars>>
    \/ TrainDiagnostician /\ UNCHANGED <<monitorVars, partVars, apiVars>>
    \/ DiagnosticianWritten /\ UNCHANGED <<monitorVars, partVars, apiVars>>
    \/ EvaluateCall /\ UNCHANGED <<monitorVars, partVars, apiVars>>
    \/ run_evaluation /\ UNCHANGED <<monitorVars, partVars, apiVars>>
    \/ MetricsWritten /\ UNCHANGED <<monitorVars, partVars, apiVars>>
    \/ Crash /\ UNCHANGED <<monitorVars, partVars, apiVars>>

\* ========================================================================
\* SPECIFICATIONS
\* ========================================================================

\* The dashboard alone
InitMonitor == PartIdle /\ ApiIdle /\ PipeIdle /\ MonitorInit

SpecMonitor == InitMonitor /\ [][MonitorNext]_vars

\* START clicked while no stream is being fed.
StartIdle == pc = "idle" /\ Start

\* The dashboard left alone while it streams: no ABORT, and START only
\* between sessions.
SessionNext ==
    \/ SelectScenario /\ UNCHANGED <<partVars, apiVars, pipeVars>>
    \/ StartIdle /\ UNCHANGED <<partVars, apiVars, pipeVars>>
    \/ Feed /\ UNCHANGED <<partVars, apiVars, pipeVars>>
    \/ Finalize /\ UNCHANGED <<partVars, apiVars, pipeVars>>

\* The streaming loop is a sequential for-loop of a running script: each
\* iteration ends (the inference request has a timeout, the pacing sleep
\* is bounded), so an enabled iteration or finalization is eventually taken.
SpecMonitorSession ==
    /\ InitMonitor
    /\ [][SessionNext]_vars
    /\ WF_vars(Feed /\ UNCHANGED <<partVars, apiVars, pipeVars>>)
    /\ WF_vars(Finalize /\ UNCHANGED <<partVars, apiVars, pipeVars>>)

\* Variant: the server behind API_URL answers any pair.
PredictResponses_Any == ApiAnswers

\* The (is_anomaly, fault_code) pairs /predict can answer with status 200,
\* over every pair of loaded models and every vector.
PredictResponses ==
    {LET r == Cascade([detector |-> d, diagnostician |-> g], v).response
     IN  [is_anomaly |-> r.is_anomaly, fault_code |-> r.fault_code] :
        d \in DetectorArtifacts, g \in DiagnosticianArtifacts, v \in FeatureVectors}

\* One loop iteration with this repository's API behind API_URL: the call
\* fails or carries a response of predict.
FeedPredicted ==
    /\ Feed
    /\ IF prediction_result' = None THEN TRUE
       ELSE prediction_result'[1] \in PredictResponses

\* The dashboard in front of the inference API of this repository
CascadeNext ==
    \/ SelectScenario /\ UNCHANGED <<partVars, apiVars, pipeVars>>
    \/ Start /\ UNCHANGED <<partVars, apiVars, pipeVars>>
    \/ Abort /\ UNCHANGED <<partVars, apiVars, pipeVars>>
    \/ FeedPredicted /\ UNCHANGED <<partVars, apiVars, pipeVars>>
    \/ Finalize /\ UNCHANGED <<partVars, apiVars, pipeVars>>

SpecMonitorCascade == InitMonitor /\ [][CascadeNext]_vars

\* The partitioner applied to every bounded input table
InitPartition == MonitorIdle /\ ApiIdle /\ PipeIdle /\ PartInit

SpecPartition == InitPartition /\ [][PartNext]_vars

\* The inference API over every pair of artifacts on disk
InitApi == MonitorIdle /\ PartIdle /\ PipeIdle /\ ApiInit

SpecApi == InitApi /\ [][ApiNext]_vars

\* The training and evaluation pipeline with process crashes
InitPipeline == MonitorIdle /\ PartIdle /\ ApiIdle /\ PipeInit

SpecPipeline == InitPipeline /\ [][PipeNext]_vars

\* ------------------------------------------------------------------------
\* Properties of the streaming monitor
\* ------------------------------------------------------------------------

\* A step that feeds one sample: one iteration of the streaming loop.
FeedStep == pc = "loop" /\ pc' = "loop" /\ index' = index + 1

\* elapsedTime of the sample a FeedStep feeds
FedTime == simulation_data[index + 1].sample * TIME_STEP_MINUTES

FedAnomalous == prediction_result' # None /\ prediction_result'[1].is_anomaly

LastOf(s) == s[Len(s)]

\* C3: within a session the onset time is set by the first fed sample that is
\* post-injection and anomalous, to that sample's elapsed time, and by no
\* other sample; once set, no later sample changes it.
C3_OnsetSetOnce ==
    [][FeedStep =>
        IF session_state.anomaly_detected
        THEN /\ session_state'.anomaly_detected
             /\ session_state'.anomaly_time_min = session_state.anomaly_time_min
        ELSE IF FedTime > INJECTION_TIME_MIN /\ FedAnomalous
             THEN /\ session_state'.anomaly_detected
                  /\ session_state'.anomaly_time_min = Some(FedTime)
             ELSE /\ ~session_state'.anomaly_detected
                  /\ session_state'.anomaly_time_min = None]_vars

\* C3 witness: an anomalous post-injection sample has just been fed after the
\* onset was already set by an earlier sample, and the onset time is still
\* the earlier one.
C3_Witness ==
    /\ pc = "loop"
    /\ session_state.anomaly_detected
    /\ prediction_result # None
    /\ prediction_result[1].is_anomaly
    /\ Len(history_time) > 0
    /\ LastOf(history_time) > INJECTION_TIME_MIN
    /\ session_state.anomaly_time_min[1] < LastOf(history_time)

\* The fed samples as the histories record them: sample i is post-injection,
\* and its diagnosis matches the target.
PostIdx(i) == history_time[i] > INJECTION_TIME_MIN
MatchIdx(i) == PostIdx(i) /\ history_pred[i] = selected_fault_code

\* Sample i completes PERSISTENCE_LIMIT consecutive matching samples.
CompletesRun(i) ==
    /\ i >= PERSISTENCE_LIMIT
    /\ \A j \in (i - PERSISTENCE_LIMIT + 1)..i : MatchIdx(j)

CompletionIdx == {i \in 1..Len(history_pred) : CompletesRun(i)}

\* Number of matching samples at the end of the history
TrailingMatches ==
    LET n == Len(history_pred)
        brk == {i \in 1..n : ~MatchIdx(i)}
        lastBrk == IF brk = {} THEN 0 ELSE CHOOSE i \in brk : \A j \in brk : j <= i
    IN  n - lastBrk

\* C4: the diagnosis is confirmed exactly when some fed sample has completed
\* PERSISTENCE_LIMIT consecutive post-injection matches, the confirmation
\* time is the elapsed time of the first such sample, and until then the
\* counter is the number of matches since the last non-matching sample.
C4_ConfirmAtFirstCompletedRun ==
    pc = "loop" =>
        /\ session_state.diagnosis_confirmed <=> CompletionIdx # {}
        /\ session_state.diagnosis_confirmed =>
              \E i \in CompletionIdx :
                 /\ \A j \in CompletionIdx : i <= j
                 /\ session_state.diagnosis_time_min = Some(history_time[i])
        /\ ~session_state.diagnosis_confirmed =>
              /\ session_state.diagnosis_time_min = None
              /\ session_state.diag_consecutive_count = TrailingMatches

\* C4 witness: the post-injection samples were [match, no-match, match,
\* match] and the diagnosis is confirmed at the fourth of them.
C4_Witness ==
    /\ pc = "loop"
    /\ Len(history_pred) >= 4
    /\ LET n == Len(history_pred)
       IN  /\ \A i \in 1..(n - 4) : ~PostIdx(i)
           /\ MatchIdx(n - 3) /\ PostIdx(n - 2) /\ ~MatchIdx(n - 2)
           /\ MatchIdx(n - 1) /\ MatchIdx(n)
           /\ session_state.diagnosis_confirmed
           /\ session_state.diagnosis_time_min = Some(history_time[n])

\* C5: a sample whose elapsed time is at most the injection time leaves the
\* onset and the confirmation as they were and does not increment the
\* counter, whatever it carries; it is appended to every history.
C5_PreInjectionSuppressed ==
    [][(FeedStep /\ FedTime <= INJECTION_TIME_MIN) =>
        /\ session_state'.anomaly_detected = session_state.anomaly_detected
        /\ session_state'.anomaly_time_min = session_state.anomaly_time_min
        /\ session_state'.diagnosis_confirmed = session_state.diagnosis_confirmed
        /\ session_state'.diagnosis_time_min = session_state.diagnosis_time_min
        /\ session_state'.diag_consecutive_count <= session_state.diag_consecutive_count
        /\ history_time' = Append(history_time, FedTime)
        /\ Len(history_pred') = Len(history_pred) + 1
        /\ history_pression' = Append(history_pression, simulation_data[index + 1].xmeas_7)
        /\ history_temp' = Append(history_temp, simulation_data[index + 1].xmeas_9)
        /\ history_debit' = Append(history_debit, simulation_data[index + 1].xmeas_10)]_vars

\* C5 witness: the sample at exactly the injection time was anomalous with
\* the target fault code, and neither flag nor the counter moved.
C5_Witness ==
    /\ pc = "loop"
    /\ Len(history_time) > 0
    /\ LastOf(history_time) = INJECTION_TIME_MIN
    /\ prediction_result = Some([is_anomaly |-> TRUE, fault_code |-> selected_fault_code])
    /\ ~session_state.anomaly_detected
    /\ ~session_state.diagnosis_confirmed
    /\ session_state.diag_consecutive_count = 0

\* C6: a sample whose inference call failed is recorded in the history as a
\* neutral sample and leaves the onset, the confirmation and the counter of
\* consecutive matches exactly as they were.
C6_FailedSampleNonAdvancing ==
    [][(FeedStep /\ prediction_result' = None) =>
        /\ LastOf(history_pred') = 0
        /\ Len(history_pred') = Len(history_pred) + 1
        /\ session_state'.anomaly_detected = session_state.anomaly_detected
        /\ session_state'.anomaly_time_min = session_state.anomaly_time_min
        /\ session_state'.diagnosis_confirmed = session_state.diagnosis_confirmed
        /\ session_state'.diagnosis_time_min = session_state.diagnosis_time_min
        /\ session_state'.diag_consecutive_count = session_state.diag_consecutive_count]_vars

\* ------------------------------------------------------------------------
\* Properties of the partitioner
\* ------------------------------------------------------------------------

RunIdOf(row) == <<row.faultNumber, row.simulationRun>>
RowKey(row) == <<row.faultNumber, row.simulationRun, row.sample>>
RunIdsIn(d) == {RunIdOf(d.rows[i]) : i \in 1..Len(d.rows)}
RowKeysIn(d) == {RowKey(d.rows[i]) : i \in 1..Len(d.rows)}
RowsOfRun(d, g) == {RowKey(d.rows[i]) : i \in {j \in 1..Len(d.rows) : RunIdOf(d.rows[j]) = g}}
RunsOfClass(d, c) == {g \in RunIdsIn(d) : g[1] = c}

\* C1: after a split, no run (faultClass, runIndex) has rows in both
\* partitions: the rows of every run of the input lie wholly in the train
\* partition or wholly in the test partition (the legacy split may also have
\* dropped the run), and the partitions hold rows of the input only.
C1_TrainTestRunsDisjoint ==
    part_pc \in {"split", "legacy_split"} =>
        /\ RunIdsIn(df_train) \cap RunIdsIn(df_test) = {}
        /\ RowKeysIn(df_train) \cup RowKeysIn(df_test) \subseteq RowKeysIn(loaded_df)
        /\ \A g \in RunIdsIn(loaded_df) :
              LET R == RowsOfRun(loaded_df, g)
              IN  \/ R \subseteq RowKeysIn(df_train) /\ R \cap RowKeysIn(df_test) = {}
                  \/ R \subseteq RowKeysIn(df_test) /\ R \cap RowKeysIn(df_train) = {}
                  \/ /\ part_pc = "legacy_split"
                     /\ R \cap (RowKeysIn(df_train) \cup RowKeysIn(df_test)) = {}

\* C1 witness: split_by_run produced two non-empty partitions from a table
\* in which some run has several rows.
C1_Witness ==
    /\ part_pc = "split"
    /\ df_train.rows # <<>>
    /\ df_test.rows # <<>>
    /\ \E g \in RunIdsIn(loaded_df) : Cardinality(RowsOfRun(loaded_df, g)) >= 2

\* C7: downsampling with quota q keeps, for every class, exactly
\* min(q, number of distinct runs of the class) runs, and the output is the
\* input restricted to the rows of the kept runs.
C7_DownsampleQuota ==
    quota # None =>
        /\ \A c \in 0..MaxClass :
              Cardinality(RunsOfClass(loaded_df, c)) =
                  Min2(quota[1], Cardinality(RunsOfClass(source_df, c)))
        /\ RunIdsIn(loaded_df) \subseteq RunIdsIn(source_df)
        /\ loaded_df.columns = source_df.columns
        /\ loaded_df.rows =
              SelectSeq(source_df.rows, LAMBDA row : RunIdOf(row) \in RunIdsIn(loaded_df))

\* C7 witness: with quota 1, a class of two runs was cut to one run, both of
\* whose rows were kept.
C7_Witness ==
    /\ quota = Some(1)
    /\ \E c \in 0..MaxClass :
          /\ Cardinality(RunsOfClass(source_df, c)) = 2
          /\ Cardinality(RunsOfClass(loaded_df, c)) = 1
          /\ Len(loaded_df.rows) = 2

\* ------------------------------------------------------------------------
\* Properties of the inference API
\* ------------------------------------------------------------------------

\* The last request was a /predict answered 200.
PredictAnswered ==
    /\ api_request # None
    /\ api_request[1].endpoint = "/predict"
    /\ api_response[1].status_code = 200

\* The feature vector of the last /predict request.
RequestVector ==
    SelectSensorCols(RequestFrame(api_request[1].sensors[1], api_request[1].keys))[1]

\* What the loaded models answer on a vector.
DetectorSays(v) == artifact_store.detector[1][v]
DiagnosticianSays(v) == artifact_store.diagnostician[1][v]

\* C2: when the detector classifies the vector as normal, predict answers
\* is_anomaly = false, fault_code = 0, status "Normal Operation", whatever
\* the diagnostician says on that vector, and invokes the detector only; in
\* every request the diagnostician is invoked only right after the detector
\* reported anomalous on the same vector.
C2_NormalSkipsDiagnostician ==
    /\ (PredictAnswered /\ DetectorSays(RequestVector) = 0) =>
          /\ api_response[1].body =
                [is_anomaly |-> FALSE, fault_code |-> 0, status |-> "Normal Operation"]
          /\ api_calls = <<<<"detector", RequestVector>>>>
    /\ \A i \in 1..Len(api_calls) :
          api_calls[i][1] = "diagnostician" =>
              /\ i > 1
              /\ api_calls[i - 1] = <<"detector", api_calls[i][2]>>
              /\ DetectorSays(api_calls[i][2]) = 1

\* C2 witness: a vector the detector calls normal and the diagnostician
\* would call a fault was answered "Normal Operation".
C2_Witness ==
    /\ PredictAnswered
    /\ DetectorSays(RequestVector) = 0
    /\ DiagnosticianSays(RequestVector) # 0
    /\ api_response[1].body.status = "Normal Operation"

\* ------------------------------------------------------------------------
\* Properties of the training and evaluation pipeline
\* ------------------------------------------------------------------------

\* The sensor readings of a training row.
FeaturesOf(row) == [c \in Range(SensorCols) |-> row[c]]

\* The step publishes a complete artifact at the path.
Publishes(path) == fs'[path] # fs[path] /\ fs'[path].state = "complete"

PositiveRows(df) == SelectSeq(df.rows, LAMBDA row : row.faultNumber >= 1)

\* C8: the detector is fitted on every training row, its label collapsed to
\* 0 (label 0) or 1 (any positive label); the diagnostician is fitted on
\* exactly the rows whose label is positive, with their labels, so that it
\* has no class 0.
C8_CascadeTrainingSets ==
    [][ /\ Publishes(MODEL_DETECT_NAME) =>
              LET m == ContentOf(fs', MODEL_DETECT_NAME)
              IN  /\ Len(m.X) = Len(pipe_train.rows)
                  /\ Len(m.y) = Len(pipe_train.rows)
                  /\ \A i \in 1..Len(pipe_train.rows) :
                        /\ m.X[i] = FeaturesOf(pipe_train.rows[i])
                        /\ m.y[i] = IF pipe_train.rows[i].faultNumber = 0 THEN 0 ELSE 1
        /\ Publishes(MODEL_DIAG_NAME) =>
              LET m == ContentOf(fs', MODEL_DIAG_NAME)
                  pos == PositiveRows(pipe_train)
              IN  /\ Len(m.X) = Len(pos)
                  /\ Len(m.y) = Len(pos)
                  /\ \A i \in 1..Len(pos) :
                        /\ m.X[i] = FeaturesOf(pos[i])
                        /\ m.y[i] = pos[i].faultNumber
                  /\ 0 \notin Range(m.y)
      ]_vars

\* C8 witness: both models are on disk; the detector saw label-0 rows and
\* positive rows, the diagnostician saw class 2 and fewer rows than the
\* detector.
C8_Witness ==
    /\ Readable(fs, MODEL_DETECT_NAME)
    /\ Readable(fs, MODEL_DIAG_NAME)
    /\ {0, 1} \subseteq Range(ContentOf(fs, MODEL_DETECT_NAME).y)
    /\ 2 \in Range(ContentOf(fs, MODEL_DIAG_NAME).y)
    /\ Len(ContentOf(fs, MODEL_DIAG_NAME).X) < Len(ContentOf(fs, MODEL_DETECT_NAME).X)

\* C9: a train call with force false that found both model artifacts on
\* disk writes no file.
C9_SkippedTrainWritesNothing ==
    (pipe_call.op = "train" /\ ~pipe_call.force /\ pipe_call.models_existed) =>
        \A i \in 1..Len(io_ops) : io_ops[i][1] # "write"

\* C10: once a call has ended, by return, exception or crash, every model,
\* report or subset file that exists is complete.
C10_ExistingArtifactsComplete ==
    pipe_pc = "idle" =>
        \A path \in {MODEL_DETECT_NAME, MODEL_DIAG_NAME, METRICS_PATH}
                        \cup {subset_path(n) : n \in ConfiguredQuotas} :
            exists(fs, path) => fs[path].state = "complete"

\* C11: an evaluate call with force false that finds a complete metrics
\* file loads it: it reads that file only (neither model, nor the test
\* set), rewrites nothing, and the report it shows is the one the last
\* computing run persisted.
C11_CachedReportLoaded ==
    [][ ( /\ pipe_pc = "run_evaluation"
          /\ ~pipe_call.force
          /\ Readable(fs, METRICS_PATH)
          /\ pipe_call'.outcome # "crashed" ) =>
            /\ fs' = fs
            /\ io_ops' = Append(io_ops, <<"read", METRICS_PATH>>)
            /\ io_ops = <<>>
            /\ pipe_call'.outcome = "returned"
            /\ pipe_call'.displayed = last_report
            /\ last_report # None
            /\ last_report' = last_report
      ]_vars

\* C11 witness: an evaluate call without force returned a report after
\* reading the metrics file and nothing else.
C11_Witness ==
    /\ pipe_pc = "idle"
    /\ pipe_call.op = "evaluate"
    /\ ~pipe_call.force
    /\ pipe_call.outcome = "returned"
    /\ pipe_call.displayed # None
    /\ io_ops = << <<"read", METRICS_PATH>> >>

\* C12: a /predict request whose sensors field is absent, or whose key set
\* is not exactly the sensor channels, is answered with an error and no
\* model is invoked for it.
C12_ChannelMismatchRejected ==
    ( /\ api_request # None
      /\ api_request[1].endpoint = "/predict"
      /\ \/ api_request[1].sensors = None
         \/ DOMAIN api_request[1].sensors[1] # Range(SensorCols) ) =>
        /\ api_response[1].status_code # 200
        /\ api_calls = <<>>

\* A step that serves a request while the application is up.
ServesRequest(endpoint) ==
    /\ api_up /\ api_up'
    /\ api_request' # None
    /\ api_request'[1].endpoint = endpoint

\* Both artifacts were loaded at startup.
BothLoaded == {"detector", "diagnostician"} \subseteq DOMAIN MODELS

\* C13: a well-formed /predict request is answered 503, with no model
\* invoked, exactly when the detector or the diagnostician is not in the
\* repository, and /health reports both models ready exactly when /predict
\* is able to serve.
C13_NotInitialisedIffNotReady ==
    [][ /\ (ServesRequest("/predict") /\ api_request'[1].sensors # None) =>
              /\ ~BothLoaded => /\ api_response'[1].status_code = 503
                                /\ api_calls' = <<>>
              /\ BothLoaded => api_response'[1].status_code # 503
        /\ ServesRequest("/health") =>
              ( /\ api_response'[1].body.detector_ready
                /\ api_response'[1].body.diagnostician_ready ) <=> BothLoaded
      ]_vars

\* C13 witness: the detector was loaded, the diagnostician was not, and a
\* well-formed request was answered 503.
C13_Witness ==
    /\ api_up
    /\ "detector" \in DOMAIN MODELS
    /\ "diagnostician" \notin DOMAIN MODELS
    /\ api_request # None
    /\ api_request[1].endpoint = "/predict"
    /\ api_request[1].sensors # None
    /\ DOMAIN api_request[1].sensors[1] = Range(SensorCols)
    /\ api_response[1].status_code = 503

\* ------------------------------------------------------------------------
\* Properties of the streaming monitor: reports, calibration, sessions
\* ------------------------------------------------------------------------

\* C14: the final report carries detection_delay = max(0, onset time -
\* injection time) when an onset was recorded and None otherwise, and
\* diagnosis_delay = max(0, confirmation time - injection time) when a
\* confirmation was recorded and None otherwise; an onset at minute 66 with
\* the injection at minute 60 gives a detection delay of 6.
C14_ReportDelays ==
    session_state.final_report # None =>
        LET rep == session_state.final_report[1]
            onset == session_state.anomaly_time_min
            confirmation == session_state.diagnosis_time_min
        IN  /\ rep.detection_delay =
                  IF onset = None THEN None
                  ELSE Some(Max2(0, onset[1] - INJECTION_TIME_MIN))
            /\ rep.diagnosis_delay =
                  IF confirmation = None THEN None
                  ELSE Some(Max2(0, confirmation[1] - INJECTION_TIME_MIN))
            /\ (onset = Some(66) /\ INJECTION_TIME_MIN = 60) => rep.detection_delay = Some(6)

\* C14 witness: a report of a session whose onset was at minute 66 and
\* that was never confirmed.
C14_Witness ==
    /\ session_state.final_report # None
    /\ session_state.anomaly_time_min = Some(66)
    /\ session_state.final_report[1].detection_delay = Some(6)
    /\ session_state.diagnosis_time_min = None
    /\ session_state.final_report[1].diagnosis_delay = None

\* The number of samples fed to the running session.
FedCount == Len(history_time)

\* C15: while fewer than CALIBRATION_SIZE samples have been fed the
\* baseline of every channel is unset, and from the moment the
\* CALIBRATION_SIZE-th sample has been fed it is the arithmetic mean of the
\* first CALIBRATION_SIZE values of the channel.
C15_BaselineAtCalibrationSize ==
    pc = "loop" =>
        LET base == session_state.base_values
            first(h) == Mean(SubSeq(h, 1, CALIBRATION_SIZE))
        IN  IF FedCount < CALIBRATION_SIZE
            THEN base.p = None /\ base.t = None /\ base.f = None
            ELSE /\ base.p = Some(first(history_pression))
                 /\ base.t = Some(first(history_temp))
                 /\ base.f = Some(first(history_debit))

\* A session was started and has ended, by ABORT or by exhaustion of its
\* stream.
SessionEnded ==
    /\ pc = "idle"
    /\ "anomaly_detected" \in DOMAIN session_state
    /\ ~session_state.simulation_running

\* The step is a START: it opens the next session.
StartStep ==
    \/ session_state' = StartReset(session_state)
    \/ session_state' = [StartReset(session_state) EXCEPT !.simulation_running = FALSE]

\* The fields of a session that its end freezes.
FrozenFields(ss) ==
    <<ss.anomaly_time_min, ss.diagnosis_time_min, ss.diag_consecutive_count,
      ss.base_values, ss.final_report>>

\* C16: once a session has ended, no operation other than the START of the
\* next session changes its onset time, confirmation time, match count,
\* baselines or final report.
C16_EndedSessionFrozen ==
    [][ (SessionEnded /\ ~StartStep) =>
            FrozenFields(session_state') = FrozenFields(session_state) ]_vars

\* The delay a report must carry for a recorded time (None when unset).
DelayOf(time) == IF time = None THEN None ELSE Some(Max2(0, time[1] - INJECTION_TIME_MIN))

\* C17: a step that ends a running session (ABORT in any state of the
\* session, or exhaustion of the stream) leaves a final report whose
\* detection and diagnosis delays are computed from the onset and
\* confirmation times reached so far.
C17_StopYieldsReport ==
    [][ ( /\ pc = "loop"
          /\ session_state.simulation_running
          /\ ~session_state'.simulation_running
          /\ ~StartStep ) =>
            /\ session_state'.final_report # None
            /\ session_state'.final_report[1].detection_delay =
                   DelayOf(session_state.anomaly_time_min)
            /\ session_state'.final_report[1].diagnosis_delay =
                   DelayOf(session_state.diagnosis_time_min)
      ]_vars

\* C18: with no ABORT, a session on a finite stream whose inference calls
\* fail on any subset of the samples keeps running after every sample, has
\* every fed sample in its history, ends only once the whole stream has
\* been fed, and eventually ends with a final report.
C18_SessionCompletesDespiteFailures ==
    /\ [](pc = "loop" =>
            /\ session_state.simulation_running
            /\ Len(history_time) = index
            /\ Len(history_pred) = index
            /\ Len(history_pression) = index)
    /\ [][(pc = "loop" /\ pc' # "loop") =>
            /\ index = Len(simulation_data)
            /\ pc' = "idle"
            /\ session_state'.final_report # None]_vars
    /\ ((pc = "loop") ~> (pc = "idle" /\ session_state.final_report # None))

\* C18 witness: the whole stream has been fed and recorded although no
\* inference call succeeded after the injection (the last one failed, no
\* onset was ever recorded); the session is still running.
C18_Witness ==
    /\ pc = "loop"
    /\ index = Len(simulation_data)
    /\ prediction_result = None
    /\ Len(history_time) = Len(simulation_data)
    /\ \A i \in 1..Len(history_pred) : history_pred[i] = 0
    /\ ~session_state.anomaly_detected
    /\ session_state.simulation_running

\* The session a START opens, whatever came before it.
FreshSession ==
    [simulation_running     |-> TRUE,
     final_report           |-> None,
     final_figs             |-> None,
     base_values            |-> [p |-> None, t |-> None, f |-> None],
     anomaly_detected       |-> FALSE,
     anomaly_time_min       |-> None,
     diagnosis_confirmed    |-> FALSE,
     diagnosis_time_min     |-> None,
     diag_consecutive_count |-> 0]

\* C19: every step that opens a session (START with data found: the loop
\* is entered at row 0) leaves the onset time, the confirmation time, both
\* flags, the counter of consecutive matches, the baselines and the report
\* at their initial values and the loop's buffers and histories empty, so
\* the state the session runs from is the same whatever an earlier session
\* left behind; only the selected scenario and the stream remain.
C19_StartResetsSession ==
    [][(pc' = "loop" /\ index' = 0) =>
          /\ session_state' = FreshSession
          /\ prediction_result' = None
          /\ init_p' = <<>> /\ init_t' = <<>> /\ init_f' = <<>>
          /\ history_pression' = <<>> /\ history_temp' = <<>>
          /\ history_debit' = <<>> /\ history_pred' = <<>>
          /\ history_time' = <<>>]_vars

\* C19 witness: an earlier session ended detected and confirmed, with its
\* counter, baselines and report set; START is enabled there and opens the
\* next session from this state.
C19_Witness ==
    /\ pc = "idle"
    /\ "anomaly_detected" \in DOMAIN session_state
    /\ session_state.anomaly_detected
    /\ session_state.diagnosis_confirmed
    /\ session_state.diag_consecutive_count > 0
    /\ session_state.base_values.p # None
    /\ session_state.final_report # None
    /\ ENABLED Start

\* The columns of the frame both pipelines are fitted on, for a master
\* record df and a shuffle of its runs: load_data, split_by_run,
\* pd.concat([X_train, y_train], axis=1), then _prepare_features.
TrainedColumns(df, order) ==
    LET loaded == WithUniqueRunId(df)
        split_data == split_by_run(loaded, DEFAULT_TEST_SIZE_PCT, order)
        df_train_ready == WithColumn(split_data[1][1], "faultNumber", split_data[1][2])
    IN  prepare_features(df_train_ready).columns

\* The feature orders a persisted pipeline can have been fitted on: one per
\* master record and seeded shuffle of its runs.
FittedFeatureOrders ==
    UNION { {TrainedColumns(df, order) :
                order \in ShuffleOrders(
                    Len(Unique(Column(WithUniqueRunId(df), "unique_run_id"))))} :
            df \in PipelineTables }

LoadedRuns == RunIdsIn(loaded_df)

\* C21: a split_by_run call whose test size is not strictly between 0 and
\* 100 percent, or whose input has fewer than 2 distinct runs, returns no
\* partition.
C21_InvalidSplitRejected ==
    ( /\ part_pc = "split"
      /\ \/ split_test_size <= 0
         \/ split_test_size >= 100
         \/ Cardinality(LoadedRuns) < 2 ) =>
        split_result = None

\* The run ids of class c in the order in which the rows of d first show them.
RunsInRowOrder(d, c) ==
    LET rowsOfClass == SelectSeq(d.rows, LAMBDA row : row.faultNumber = c)
    IN  Unique([i \in 1..Len(rowsOfClass) |-> RunIdOf(rowsOfClass[i])])

\* C22: downsampling with quota q keeps, for every class, the first q
\* distinct runs of the class in the order in which the input rows first
\* show them, and the same call on the same input gives the same table.
C22_FirstEncounteredRuns ==
    quota # None =>
        /\ \A c \in 0..MaxClass :
              RunsOfClass(loaded_df, c) =
                  Range(PrefixSlice(RunsInRowOrder(source_df, c), quota[1]))
        /\ loaded_df = subsample_by_run(source_df, quota[1])

\* ------------------------------------------------------------------------
\* Properties of the pipeline: missing artifacts, caches, partial training
\* ------------------------------------------------------------------------

\* An evaluate call has ended (not by the death of the process) and it had
\* to compute the metrics: evaluate writes no file but the metrics, so the
\* metrics file is absent now only if it was absent at the call.
EvaluateComputed ==
    /\ pipe_pc = "idle"
    /\ pipe_call.op = "evaluate"
    /\ pipe_call.outcome # "crashed"
    /\ (pipe_call.force \/ ~exists(fs, METRICS_PATH))

\* C23: an evaluate call that has to compute the metrics and finds the test
\* set or a model file missing ends with an error raised to the caller
\* (exit code 1) and has displayed no report.
C23_MissingArtifactFails ==
    ( /\ EvaluateComputed
      /\ \/ ~exists(fs, FINAL_TEST_SET_PATH)
         \/ ~exists(fs, MODEL_DETECT_NAME)
         \/ ~exists(fs, MODEL_DIAG_NAME) ) =>
        /\ pipe_call.outcome = "raised"
        /\ pipe_call.displayed = None

\* (X, y) is the table d with exactly the columns of `identity` removed, the
\* other columns in their original order, and the class column as label,
\* row by row.
StripsIdentity(d, identity, xy) ==
    LET X == xy[1]
        y == xy[2]
    IN  /\ X.columns = SelectSeq(d.columns, LAMBDA c : c \notin identity)
        /\ Len(X.rows) = Len(d.rows)
        /\ Len(y) = Len(d.rows)
        /\ \A i \in 1..Len(d.rows) :
              /\ DOMAIN X.rows[i] = Range(X.columns)
              /\ \A c \in Range(X.columns) : X.rows[i][c] = d.rows[i][c]
              /\ y[i] = d.rows[i].faultNumber

\* C24: _finalize_split returns the split segment without faultNumber,
\* simulationRun, sample and the synthetic run key, i.e. the channel columns
\* in their original order, and the class column as label, row-aligned;
\* split_X_y does the same with drop_metadata true and removes only
\* faultNumber with drop_metadata false.
C24_FinalizeStripsIdentity ==
    /\ part_pc = "split" =>
          LET identity == {"faultNumber", "simulationRun", "sample", "unique_run_id"}
          IN  /\ StripsIdentity(df_train, identity, split_result[1][1])
              /\ StripsIdentity(df_test, identity, split_result[1][2])
              /\ split_result[1][1][1].columns = SensorCols
              /\ split_result[1][2][1].columns = SensorCols
    /\ part_pc = "legacy_xy" =>
          LET identity == IF drop_metadata
                          THEN {"faultNumber", "simulationRun", "sample"}
                          ELSE {"faultNumber"}
          IN  /\ StripsIdentity(df_train, identity, split_result[1][1])
              /\ StripsIdentity(df_test, identity, split_result[1][2])
              /\ drop_metadata => split_result[1][1][1].columns = SensorCols

\* C24 witness: a split segment that carries the synthetic run key and rows
\* of two classes was finalized.
C24_Witness ==
    /\ part_pc = "split"
    /\ "unique_run_id" \in Range(df_train.columns)
    /\ Len(df_train.rows) >= 2
    /\ split_result[1][1][2][1] # split_result[1][1][2][2]
    /\ split_result[1][1][1].columns = SensorCols

\* C25: whenever a train call has returned and the test set and both model
\* artifacts are on disk, no run with rows in the test set has rows among
\* those either model was fitted on.
C25_TestSetDisjointFromFittedRuns ==
    ( /\ pipe_pc = "idle"
      /\ pipe_call.op = "train"
      /\ pipe_call.outcome = "returned"
      /\ Readable(fs, FINAL_TEST_SET_PATH)
      /\ Readable(fs, MODEL_DETECT_NAME)
      /\ Readable(fs, MODEL_DIAG_NAME) ) =>
        provenance.test_set \cap (provenance.detector \cup provenance.diagnostician) = {}

\* C26: the report an evaluate call displays is the report of the model
\* artifacts and the test set that are on disk at the call.
C26_ReportOfCurrentArtifacts ==
    ( /\ pipe_pc = "idle"
      /\ pipe_call.op = "evaluate"
      /\ pipe_call.outcome = "returned"
      /\ pipe_call.displayed # None
      /\ Readable(fs, FINAL_TEST_SET_PATH)
      /\ Readable(fs, MODEL_DETECT_NAME)
      /\ Readable(fs, MODEL_DIAG_NAME) ) =>
        pipe_call.displayed[1] = Report(ContentOf(fs, MODEL_DETECT_NAME),
                                        ContentOf(fs, MODEL_DIAG_NAME),
                                        ContentOf(fs, FINAL_TEST_SET_PATH))

\* ------------------------------------------------------------------------
\* Batch evaluation against the inference API
\* ------------------------------------------------------------------------

\* A test set that holds every feature vector once.
EvalRows ==
    [i \in 1..4 |-> [j \in 1..Len(SensorCols) |->
                        IF j = 1 THEN (i - 1) \div 2 ELSE (i - 1) % 2]]

\* C27: for every row of a test set, the class the batch evaluation assigns
\* to it with the models on disk is the fault_code /predict answers for that
\* row's vector: 0 when the detector says normal, the diagnostician's class
\* when it says anomalous.  The legacy audit assigns the same class.
C27_BatchEqualsPredict ==
    PredictAnswered =>
        \A i \in 1..Len(EvalRows) :
            EvalRows[i] = api_calls[1][2] =>
                /\ final_preds(LoadModels(artifact_store), EvalRows)[i] = api_response[1].body.fault_code
                /\ generate_audit(LoadModels(artifact_store), EvalRows)[i] = api_response[1].body.fault_code
                /\ api_response[1].body.fault_code =
                      IF LoadModels(artifact_store)["detector"][EvalRows[i]] = 0 THEN 0
                      ELSE LoadModels(artifact_store)["diagnostician"][EvalRows[i]]

\* C27 witness: /predict answered a fault for a vector that in the test set
\* comes after a row the detector calls normal, so the masked positions of
\* the batch are not the row positions; the diagnostician disagrees with
\* the detector on that normal row.
C27_Witness ==
    /\ PredictAnswered
    /\ api_response[1].body.is_anomaly
    /\ api_response[1].body.fault_code >= 1
    /\ api_calls[1][2] = EvalRows[3]
    /\ LoadModels(artifact_store)["detector"][EvalRows[1]] = 0
    /\ LoadModels(artifact_store)["diagnostician"][EvalRows[1]] >= 1
    /\ final_preds(LoadModels(artifact_store), EvalRows)[3] = api_response[1].body.fault_code
    /\ final_preds(LoadModels(artifact_store), EvalRows)[1] = 0

\* ------------------------------------------------------------------------
\* Properties of the streaming monitor: detection and confirmation
\* ------------------------------------------------------------------------

\* C28: when every fed sample carries a response of predict or is the
\* neutral sample of a failed call, and the target fault code is at least
\* 1, a confirmed session is a detected one and its onset time is not after
\* its confirmation time.
C28_ConfirmedImpliesDetected ==
    ( /\ "diagnosis_confirmed" \in DOMAIN session_state
      /\ selected_fault_code >= 1
      /\ session_state.diagnosis_confirmed ) =>
        /\ session_state.anomaly_detected
        /\ session_state.anomaly_time_min # None
        /\ session_state.diagnosis_time_min # None
        /\ session_state.anomaly_time_min[1] <= session_state.diagnosis_time_min[1]

\* C28 witness: a session confirmed strictly after its onset.
C28_Witness ==
    /\ "diagnosis_confirmed" \in DOMAIN session_state
    /\ session_state.diagnosis_confirmed
    /\ session_state.anomaly_detected
    /\ session_state.anomaly_time_min[1] < session_state.diagnosis_time_min[1]

WritingPc(path) ==
    IF path = MODEL_DETECT_NAME THEN "detector_write" ELSE "diagnostician_write"

ModelPaths == {MODEL_DETECT_NAME, MODEL_DIAG_NAME}

WritesTo(ops, path) == \E i \in 1..Len(ops) : ops[i] = <<"write", path>>

\* C30: a train call with force false leaves every model artifact that
\* exists untouched (no step of the call changes or reopens a file it is not
\* itself in the middle of writing), fits and saves the diagnostician when
\* only the detector exists, and whenever a train call returns normally both
\* artifacts exist.
C30_TrainCompletesMissingModel ==
    /\ []((pipe_call.op = "train" /\ pipe_call.outcome = "returned") =>
             \A path \in ModelPaths : exists(fs, path))
    /\ [][(pipe_call.op = "train" /\ ~pipe_call.force /\ pipe_pc # "idle") =>
             \A path \in ModelPaths :
                 (exists(fs, path) /\ pipe_pc # WritingPc(path)) =>
                     /\ fs'[path] = fs[path]
                     /\ WritesTo(io_ops', path) = WritesTo(io_ops, path)]_vars
    /\ [][(/\ pipe_call.op = "train" /\ ~pipe_call.force
           /\ pipe_pc = "stage2"
           /\ ~exists(fs, MODEL_DIAG_NAME)
           /\ pipe_call'.outcome # "crashed") =>
             \/ /\ FitRaises(DiagnosticianFit(pipe_train))
                /\ pipe_call'.outcome = "raised"
             \/ /\ pipe_pc' = "diagnostician_write"
                /\ WritesTo(io_ops', MODEL_DIAG_NAME)]_vars
    /\ [][(pipe_pc = "diagnostician_write" /\ pipe_call'.outcome = "returned") =>
             fs'[MODEL_DIAG_NAME] = Complete(DiagnosticianFit(pipe_train))]_vars

\* C30 witness: a train call with force false has returned after writing the
\* diagnostician only; the detector of an earlier, interrupted call is on
\* disk.
C30_Witness ==
    /\ pipe_call.op = "train"
    /\ ~pipe_call.force
    /\ pipe_call.outcome = "returned"
    /\ WritesTo(io_ops, MODEL_DIAG_NAME)
    /\ ~WritesTo(io_ops, MODEL_DETECT_NAME)
    /\ Readable(fs, MODEL_DETECT_NAME)
    /\ Readable(fs, MODEL_DIAG_NAME)

====
